---- MODULE Spec2Model ----
(***************************************************************************)
(* A model of murphysean/cache: the PowerCache engine (a map of values, a  *)
(* map of timestamps and a map of weights behind one mutex), its           *)
(* maintenance trigger, its eviction pass and its get-or-load protocol.    *)
(*                                                                         *)
(* Time is an integer clock `now` (one unit is one tick of time.Now()).    *)
(* Every function of the cache is an operator on a record c holding the    *)
(* fields of the struct; an operator that returns a value returns a record *)
(* [c, v, err].  The actions of Spec are calls made one after the other    *)
(* (no two calls overlap).  The actions of SpecShared are the steps of     *)
(* calls made by several callers at once: one step per Lock(), per         *)
(* critical section, and per access made with the mutex not held.          *)
(***************************************************************************)
EXTENDS Integers, Sequences, FiniteSets, TLC

(***************************************************************************)
(* Bounds of the model.                                                    *)
(***************************************************************************)
\* the keys callers use; "" is a legal Go string key
Keys == {"", "a", "b"}
\* the values callers put
Values == {"x"}
\* the value a ValueLoader returns when it succeeds
Loaded == "y"
\* the value of MaxKeys in the configurations that set it
N == 2
\* the duration of the configurations that set ExpiresAfterWriteDuration
DW == 1
\* the duration of the configurations that set ExpiresAfterAccessDuration
DA == 2
\* the interval of the configurations that set PeriodicMaintenance
P == 3
\* the clock stops at MaxTime
MaxTime == 3
\* the largest weight SetWeight is called with
MaxW == 2
\* the number of calls in one run
MaxOps == 3

(***************************************************************************)
(* Go values.                                                              *)
(***************************************************************************)
\* a nil interface value / a nil error
nil == "nil"
\* cache.go: ErrNotPresent
ErrNotPresent == "cache: Value not present"
\* the errors a ValueLoader returns
LoaderErrors == {"load failed"}
\* var emptyDuration time.Duration
emptyDuration == 0
\* the zero time.Time (year 1): earlier than every clock reading
ZeroTime == 0 - 1000
\* the empty map
EmptyMap == [k \in {} |-> nil]

\* Go's delete(m, key)
delete(m, key) == [k \in (DOMAIN m) \ {key} |-> m[k]]
\* Go's m[key] = x
store(m, key, x) == [k \in (DOMAIN m) \cup {key} |-> IF k = key THEN x ELSE m[k]]
\* Go's m[key] on a map of time.Time: the zero time when key is absent
timeAt(m, key) == IF key \in DOMAIN m THEN m[key] ELSE ZeroTime
\* Go's m[key] on a map of int64: 0 when key is absent
intAt(m, key) == IF key \in DOMAIN m THEN m[key] ELSE 0

(***************************************************************************)
(* float64 as the code uses it in CleanUp: a quotient of two integers, or  *)
(* +Inf, -Inf, NaN.  A finite value is [k |-> "fin", n, d] with d > 0.     *)
(***************************************************************************)
NaN == [k |-> "nan", n |-> 0, d |-> 1]
PosInf == [k |-> "pinf", n |-> 0, d |-> 1]
NegInf == [k |-> "ninf", n |-> 0, d |-> 1]
Fin(n, d) == IF d > 0 THEN [k |-> "fin", n |-> n, d |-> d]
                      ELSE [k |-> "fin", n |-> 0 - n, d |-> 0 - d]

\* float64(x) / float64(y) for integers x, y
FDiv(x, y) ==
    IF y = 0
    THEN IF x = 0 THEN NaN ELSE IF x > 0 THEN PosInf ELSE NegInf
    ELSE Fin(x, y)

\* 1.0 / f  (a zero f is +0 here: it is 0/md with md > 0)
FInv(f) ==
    CASE f.k = "nan" -> NaN
      [] f.k = "pinf" -> Fin(0, 1)
      [] f.k = "ninf" -> Fin(0, 1)
      [] OTHER -> IF f.n = 0 THEN PosInf ELSE Fin(f.d, f.n)

\* f * 0.5
FHalf(f) == IF f.k = "fin" THEN Fin(f.n, 2 * f.d) ELSE f

\* x + y on float64
FAdd(x, y) ==
    CASE x.k = "nan" \/ y.k = "nan" -> NaN
      [] x.k = "pinf" -> IF y.k = "ninf" THEN NaN ELSE PosInf
      [] x.k = "ninf" -> IF y.k = "pinf" THEN NaN ELSE NegInf
      [] y.k # "fin" -> y
      [] OTHER -> Fin(x.n * y.d + y.n * x.d, x.d * y.d)

\* x == y on float64
FEq(x, y) ==
    CASE x.k = "nan" \/ y.k = "nan" -> FALSE
      [] x.k # "fin" \/ y.k # "fin" -> x.k = y.k
      [] OTHER -> x.n * y.d = y.n * x.d

\* x < y on float64: false when either is NaN
FLess(x, y) ==
    CASE x.k = "nan" \/ y.k = "nan" -> FALSE
      [] x.k = "pinf" -> FALSE
      [] y.k = "ninf" -> FALSE
      [] x.k = "ninf" -> TRUE
      [] y.k = "pinf" -> TRUE
      [] OTHER -> x.n * y.d < y.n * x.d

(***************************************************************************)
(* The state: the configuration fields of PowerCache (set before           *)
(* Initialize and never written afterwards), its private fields, the       *)
(* clock, and the record of the calls made so far.                         *)
(***************************************************************************)
VARIABLES
    \* configuration fields of the struct
    ExpiresAfterAccessDuration, ExpiresAfterWriteDuration, PeriodicMaintenance,
    MaxKeys, MaxSize, DefaultValueWeight,
    \* private fields of the struct
    values, tstamp, weight, cacheSizeEst, nextClean,
    statLoadCount, statLoadDur, statHits, statReqs, statEvictions,
    \* time.Now()
    now,
    \* the last call and what it returned: [op, key, v, err]
    ret,
    \* history: the number of keys deleted from the values map so far
    removed,
    \* history: the number of GetIfPresent executions, and of those that returned a value
    gets, getHits,
    \* history: the key that was put and since then only read, each read less than
    \* ExpiresAfterAccessDuration after the one before: [key, start, last, reads]
    chain,
    \* history: the number of calls made
    ops,
    \* c.mu: 0 when unlocked, else the caller that holds it
    mu,
    \* where each caller is in its call: [at, in, op, key, value, t0]
    pc,
    \* the runtime has thrown "fatal error: concurrent map read and map write"
    \* (or "concurrent map writes") and stopped the program
    fault

config == <<ExpiresAfterAccessDuration, ExpiresAfterWriteDuration, PeriodicMaintenance,
            MaxKeys, MaxSize, DefaultValueWeight>>
fields == <<values, tstamp, weight, cacheSizeEst, nextClean,
            statLoadCount, statLoadDur, statHits, statReqs, statEvictions, removed>>
history == <<gets, getHits, chain, ops>>
threads == <<mu, pc, fault>>
vars == <<config, fields, now, ret, history, threads>>

\* the mutable fields as one record, the receiver c of the methods
Cache ==
    [values |-> values, tstamp |-> tstamp, weight |-> weight,
     cacheSizeEst |-> cacheSizeEst, nextClean |-> nextClean,
     statLoadCount |-> statLoadCount, statLoadDur |-> statLoadDur,
     statHits |-> statHits, statReqs |-> statReqs, statEvictions |-> statEvictions,
     removed |-> removed]

\* func (c *PowerCache) Length() int
Length(c) == Cardinality(DOMAIN c.values)

\* CleanUp's delete(c.values, k); delete(c.tstamp, k); delete(c.weight, k);
\* c.statEvictions++  (removed counts the delete only when key is in values)
evict(c, key) ==
    [c EXCEPT !.values = delete(c.values, key),
              !.tstamp = delete(c.tstamp, key),
              !.weight = delete(c.weight, key),
              !.statEvictions = c.statEvictions + 1,
              !.removed = c.removed + (IF key \in DOMAIN c.values THEN 1 ELSE 0)]

\* func (c *PowerCache) Invalidate(key string)
Invalidate(c, key) ==
    [c EXCEPT !.values = delete(c.values, key),
              !.tstamp = delete(c.tstamp, key),
              !.weight = delete(c.weight, key),
              !.statEvictions = c.statEvictions + 1,
              !.removed = c.removed + (IF key \in DOMAIN c.values THEN 1 ELSE 0)]

\* func (c *PowerCache) InvalidateAll()
InvalidateAll(c) ==
    [c EXCEPT !.statEvictions = c.statEvictions + Cardinality(DOMAIN c.values),
              !.removed = c.removed + Cardinality(DOMAIN c.values),
              !.values = EmptyMap,
              !.tstamp = EmptyMap,
              !.weight = EmptyMap]

\* isKeyExpired with both comparisons turned round
isKeyExpiredTurned(c, key, t) ==
    \/ /\ ExpiresAfterAccessDuration # emptyDuration
       /\ key \in DOMAIN c.tstamp
       /\ c.tstamp[key] + ExpiresAfterAccessDuration > t
    \/ /\ ExpiresAfterWriteDuration # emptyDuration
       /\ key \in DOMAIN c.tstamp
       /\ c.tstamp[key] + ExpiresAfterWriteDuration > t

\* func (c *PowerCache) isKeyExpired(key string) bool, called at time t
isKeyExpired(c, key, t) ==
    \/ /\ ExpiresAfterAccessDuration # emptyDuration
       /\ key \in DOMAIN c.tstamp
       /\ t > c.tstamp[key] + ExpiresAfterAccessDuration
    \/ /\ ExpiresAfterWriteDuration # emptyDuration
       /\ key \in DOMAIN c.tstamp
       /\ t > c.tstamp[key] + ExpiresAfterWriteDuration
(***************************************************************************)
(* CleanUp.  `order` is the order in which range visits the keys of        *)
(* c.values (Go leaves it unspecified); the loop state st is               *)
(* [c, aKey, aWeight, aTstamp].                                            *)
(***************************************************************************)
\* the orders a range over a map with key set ks can take
Orders(ks) ==
    {o \in [1..Cardinality(ks) -> ks] : \A i, j \in DOMAIN o : i # j => o[i] # o[j]}

\* CleanUp, lines 237-284: TRUE when bscore < ascore, k replacing the candidate
worse(st, k, t) ==
    LET c == st.c
        kWeight == intAt(c.weight, k)
        kTstamp == timeAt(c.tstamp, k)
        mWeight == IF st.aWeight < kWeight THEN kWeight ELSE st.aWeight
        awf == FDiv(st.aWeight, mWeight)
        bwf == FDiv(kWeight, mWeight)
        deadlines == \/ ExpiresAfterAccessDuration # emptyDuration
                     \/ ExpiresAfterAccessDuration # emptyDuration
        mTstamp == IF st.aTstamp < kTstamp THEN kTstamp ELSE st.aTstamp
        ad == t - st.aTstamp
        bd == t - kTstamp
        md == IF ad < bd THEN bd ELSE ad
        adf == IF deadlines THEN FDiv(st.aTstamp - t, mTstamp - t)
                            ELSE FInv(FDiv(ad, md))
        bdf == IF deadlines THEN FDiv(kTstamp - t, mTstamp - t)
                            ELSE FInv(FDiv(bd, md))
        ascore == FAdd(FHalf(awf), FHalf(adf))
        bscore == FAdd(FHalf(bwf), FHalf(bdf))
    IN  FLess(bscore, ascore)

\* CleanUp, line 217: the sweep takes key for expired at time t
sweepExpired(c, key, t) == timeAt(c.tstamp, key) < t

\* CleanUp, lines 213-285: the range loop from position i of order
RECURSIVE scan(_, _, _, _)
scan(st, order, i, t) ==
    IF i > Len(order) THEN st
    ELSE
        LET k == order[i]
            c == st.c
            chosen == [st EXCEPT !.aKey = k,
                                 !.aWeight = intAt(c.weight, k),
                                 !.aTstamp = timeAt(c.tstamp, k)]
        IN  IF /\ \/ ExpiresAfterWriteDuration # emptyDuration
                  \/ ExpiresAfterAccessDuration # emptyDuration
               /\ sweepExpired(c, k, t)
            THEN IF MaxSize # 0 \/ MaxKeys # 0
                 THEN [st EXCEPT !.c = evict(c, k)]
                 ELSE scan([st EXCEPT !.c = evict(c, k)], order, i + 1, t)
            ELSE IF st.aKey = ""
                 THEN scan(chosen, order, i + 1, t)
                 ELSE scan(IF worse(st, k, t) THEN chosen ELSE st, order, i + 1, t)

\* func (c *PowerCache) CleanUp(), called at time t
CleanUp(c, t, order) ==
    LET st == scan([c |-> c, aKey |-> "", aWeight |-> 0, aTstamp |-> ZeroTime],
                   order, 1, t)
        d == evict(st.c, st.aKey)
    IN  IF PeriodicMaintenance # emptyDuration
        THEN [d EXCEPT !.nextClean = t + PeriodicMaintenance]
        ELSE d

\* shouldClean with the key count compared by > instead of >=
shouldCleanLate(c, t) ==
    \/ PeriodicMaintenance # emptyDuration /\ c.nextClean > t
    \/ MaxKeys # 0 /\ Length(c) > MaxKeys
    \/ MaxSize # 0 /\ c.cacheSizeEst >= MaxSize

\* cleanUpIfNeccissary, lines 59-73: shouldClean
shouldClean(c, t) ==
    \/ PeriodicMaintenance # emptyDuration /\ c.nextClean > t
    \/ MaxKeys # 0 /\ Length(c) >= MaxKeys
    \/ MaxSize # 0 /\ c.cacheSizeEst >= MaxSize

\* func (c *PowerCache) cleanUpIfNeccissary(), called at time t; order is the
\* range order of the pass it runs, if it runs one
cleanUpIfNeccissary(c, t, order) ==
    IF shouldClean(c, t) THEN CleanUp(c, t, order) ELSE c

\* the range orders of the pass that a Put on c at time t runs (one empty order
\* when it runs none)
PassOrders(c, t) == IF shouldClean(c, t) THEN Orders(DOMAIN c.values) ELSE {<< >>}

\* Put, lines 86-94: the timestamp written for a key at time t
writeStamp(t) ==
    IF ExpiresAfterAccessDuration # emptyDuration THEN t + ExpiresAfterAccessDuration
    ELSE IF ExpiresAfterWriteDuration # emptyDuration THEN t + ExpiresAfterWriteDuration
    ELSE t

\* Put, lines 83-97: the write of the key under the lock
putWrite(c, key, value, t) ==
    [c EXCEPT !.values = store(c.values, key, value),
              !.tstamp = store(c.tstamp, key, writeStamp(t)),
              !.weight = store(c.weight, key, DefaultValueWeight)]

\* func (c *PowerCache) Put(key string, value interface{}), called at time t
Put(c, key, value, t, order) ==
    putWrite(cleanUpIfNeccissary(c, t, order), key, value, t)

\* loadWithValueLoader without its check of err
loadWithValueLoaderUnchecked(c, key, out, t0, t1, order) ==
    LET loaddur == t1 - t0
        count == c.statLoadCount + 1
        c1 == [c EXCEPT !.statLoadCount = count,
                        !.statLoadDur = (c.statLoadDur + loaddur) \div count]
    IN  [c |-> Put(c1, key, out.v, t1, order), v |-> out.v, err |-> nil]

\* loadWithValueLoader, lines 108-111: the load counters under the lock
loadStat(c, loaddur) ==
    [c EXCEPT !.statLoadCount = c.statLoadCount + 1,
              !.statLoadDur = (c.statLoadDur + loaddur) \div (c.statLoadCount + 1)]

\* func (c *PowerCache) loadWithValueLoader(key, valueLoader): the loader is called
\* at time t0 and returns out = [v, err] at time t1
loadWithValueLoader(c, key, out, t0, t1, order) ==
    IF out.err # nil
    THEN [c |-> c, v |-> nil, err |-> out.err]
    ELSE [c |-> Put(loadStat(c, t1 - t0), key, out.v, t1, order),
          v |-> out.v, err |-> nil]

\* the range orders of the pass that a load on c runs when the loader returns out
\* at time t1 (one empty order when it runs none)
LoadOrders(c, out, t1) == IF out.err = nil THEN PassOrders(c, t1) ELSE {<< >>}

\* func (c *PowerCache) Refresh(key string)
Refresh(c, key, out, t0, t1, order) ==
    loadWithValueLoader(c, key, out, t0, t1, order).c

\* readStamp refreshing a write-expiry deadline too
readStampAlways(c, key, t) ==
    IF /\ ExpiresAfterWriteDuration = emptyDuration
       /\ ExpiresAfterAccessDuration = emptyDuration
    THEN store(c.tstamp, key, t)
    ELSE IF ExpiresAfterAccessDuration # emptyDuration
         THEN store(c.tstamp, key, t + ExpiresAfterAccessDuration)
         ELSE store(c.tstamp, key, t + ExpiresAfterWriteDuration)

\* GetIfPresent, lines 132-136: the timestamp of key after a hit at time t
readStamp(c, key, t) ==
    IF /\ ExpiresAfterWriteDuration = emptyDuration
       /\ ExpiresAfterAccessDuration = emptyDuration
    THEN store(c.tstamp, key, t)
    ELSE IF ExpiresAfterAccessDuration # emptyDuration
         THEN store(c.tstamp, key, t + ExpiresAfterAccessDuration)
         ELSE c.tstamp

\* GetIfPresent with statHits++ before the lookup
GetIfPresentHitFirst(c, key, t) ==
    LET c1 == IF isKeyExpired(c, key, t) THEN Invalidate(c, key) ELSE c
        c2 == [c1 EXCEPT !.statReqs = c1.statReqs + 1, !.statHits = c1.statHits + 1]
    IN  IF key \in DOMAIN c2.values
        THEN [c |-> [c2 EXCEPT !.tstamp = readStamp(c2, key, t)],
              v |-> c2.values[key], err |-> nil]
        ELSE [c |-> c2, v |-> nil, err |-> ErrNotPresent]

\* func (c *PowerCache) GetIfPresent(key string) (interface{}, error), called at time t
GetIfPresent(c, key, t) ==
    LET c1 == IF isKeyExpired(c, key, t) THEN Invalidate(c, key) ELSE c
        c2 == [c1 EXCEPT !.statReqs = c1.statReqs + 1]
    IN  IF key \in DOMAIN c2.values
        THEN [c |-> [c2 EXCEPT !.tstamp = readStamp(c2, key, t),
                               !.statHits = c2.statHits + 1],
              v |-> c2.values[key], err |-> nil]
        ELSE [c |-> c2, v |-> nil, err |-> ErrNotPresent]

\* func (c *PowerCache) GetWithValueLoader(key, valueLoader)
GetWithValueLoader(c, key, out, t0, t1, order) ==
    LET r == GetIfPresent(c, key, t0)
    IN  IF r.err = nil THEN r
        ELSE loadWithValueLoader(r.c, key, out, t0, t1, order)

\* func (c *PowerCache) Get(key string): GetWithValueLoader with c.ValueLoader
Get(c, key, out, t0, t1, order) == GetWithValueLoader(c, key, out, t0, t1, order)

\* func (c *PowerCache) Load(key string): GetWithValueLoader with c.ValueLoader
Load(c, key, out, t0, t1, order) == GetWithValueLoader(c, key, out, t0, t1, order)

\* func (c *PowerCache) SetExpiresAt(key string, expires time.Time)
SetExpiresAt(c, key, expires) == [c EXCEPT !.tstamp = store(c.tstamp, key, expires)]

\* func (c *PowerCache) SetExpiresIn(key string, expiresIn time.Duration), called at time t
SetExpiresIn(c, key, expiresIn, t) ==
    [c EXCEPT !.tstamp = store(c.tstamp, key, t + expiresIn)]

\* func (c *PowerCache) SetWeight(key string, weight int64)
SetWeight(c, key, w) == [c EXCEPT !.weight = store(c.weight, key, w)]

\* func (c *PowerCache) HitRate() float64
HitRate(c) == IF c.statReqs = 0 THEN Fin(0, 1) ELSE FDiv(c.statHits, c.statReqs)

\* func (c *PowerCache) AverageLoadPenalty() time.Duration
AverageLoadPenalty(c) == c.statLoadDur

\* func (c *PowerCache) EvictionCount() int64
EvictionCount(c) == c.statEvictions
(***************************************************************************)
(* Construction.  A configuration is the fields a caller sets before       *)
(* Initialize; the constructors of cache.go set them as below (P stands    *)
(* for their time.Minute * 5).                                             *)
(***************************************************************************)
\* c := new(PowerCache): every field zero
new ==
    [access |-> emptyDuration, write |-> emptyDuration, periodic |-> emptyDuration,
     maxKeys |-> 0, maxSize |-> 0, defaultWeight |-> 0]

\* func NewExpiresAfterAccessCache(accessDuration time.Duration) Cache
NewExpiresAfterAccessCache(accessDuration) ==
    [new EXCEPT !.access = accessDuration, !.periodic = P]

\* func NewExpiresAfterWriteCache(writeDuration time.Duration) Cache
NewExpiresAfterWriteCache(writeDuration) ==
    [new EXCEPT !.write = writeDuration, !.periodic = P]

\* func NewMaxKeysCache(maxKeys int) Cache
NewMaxKeysCache(maxKeys) == [new EXCEPT !.maxKeys = maxKeys]

\* func NewPowerCache() *PowerCache
NewPowerCache == new

\* the README's power cache: c.MaxKeys, c.ExpiresAfterAccessDuration and
\* c.PeriodicMaintenance set on NewPowerCache()
LeastRecentlyUsed ==
    [NewPowerCache EXCEPT !.maxKeys = N, !.access = DA, !.periodic = P]

\* the caches the three constructors make
Constructed ==
    {NewMaxKeysCache(N), NewExpiresAfterWriteCache(DW), NewExpiresAfterAccessCache(DA)}

\* the caches with MaxKeys set: alone, with PeriodicMaintenance, and as the
\* README's power cache
Bounded ==
    {NewMaxKeysCache(N),
     [NewPowerCache EXCEPT !.maxKeys = N, !.periodic = P],
     LeastRecentlyUsed}

\* the caches with a time policy and neither MaxKeys nor MaxSize: the two
\* constructors, and NewPowerCache() with both durations set
Expiring ==
    {NewExpiresAfterWriteCache(DW),
     NewExpiresAfterAccessCache(DA),
     [NewPowerCache EXCEPT !.write = DW, !.access = DA]}

\* the caches with MaxKeys and one expiry duration set on NewPowerCache()
BoundedExpiring ==
    {[NewPowerCache EXCEPT !.maxKeys = N, !.write = DW],
     [NewPowerCache EXCEPT !.maxKeys = N, !.access = DA]}

\* func (c *PowerCache) Initialize(), called at time t on configuration cf
Initialize(cf, t) ==
    /\ ExpiresAfterAccessDuration = cf.access
    /\ ExpiresAfterWriteDuration = cf.write
    /\ PeriodicMaintenance = cf.periodic
    /\ MaxKeys = cf.maxKeys
    /\ MaxSize = cf.maxSize
    /\ DefaultValueWeight = (IF cf.defaultWeight = 0 THEN 1 ELSE cf.defaultWeight)
    /\ values = EmptyMap
    /\ tstamp = EmptyMap
    /\ weight = EmptyMap
    /\ cacheSizeEst = 0
    /\ nextClean = (IF cf.periodic # emptyDuration THEN t + cf.periodic ELSE ZeroTime)
    /\ statLoadCount = 0
    /\ statLoadDur = 0
    /\ statHits = 0
    /\ statReqs = 0
    /\ statEvictions = 0

NoCall == [op |-> "none", key |-> "", v |-> nil, err |-> nil]
NoChain == [key |-> "", start |-> 0, last |-> 0, reads |-> 0 - 1]

\* the callers (goroutines) that share the cache
Callers == {1, 2}
\* a caller that is in no call
Idle == [at |-> "idle", in |-> FALSE, op |-> "none", key |-> "", value |-> nil, t0 |-> 0]

\* a cache of one of the configurations cfs, just initialized
InitOf(cfs) ==
    /\ now = 0
    /\ \E cf \in cfs : Initialize(cf, now)
    /\ ret = NoCall
    /\ removed = 0
    /\ gets = 0
    /\ getHits = 0
    /\ chain = NoChain
    /\ ops = 0
    /\ mu = 0
    /\ pc = [i \in Callers |-> Idle]
    /\ fault = FALSE

Init == InitOf(Constructed)
InitBounded == InitOf(Bounded)
InitExpiring == InitOf(Expiring)
InitBoundedExpiring == InitOf(BoundedExpiring)
InitWeights == InitOf({NewMaxKeysCache(N)} \cup BoundedExpiring)

(***************************************************************************)
(* The calls.                                                              *)
(***************************************************************************)
\* the fields of the struct after a call that leaves them as the record c
Becomes(c) ==
    /\ values' = c.values
    /\ tstamp' = c.tstamp
    /\ weight' = c.weight
    /\ cacheSizeEst' = c.cacheSizeEst
    /\ nextClean' = c.nextClean
    /\ statLoadCount' = c.statLoadCount
    /\ statLoadDur' = c.statLoadDur
    /\ statHits' = c.statHits
    /\ statReqs' = c.statReqs
    /\ statEvictions' = c.statEvictions
    /\ removed' = c.removed

\* one more call is made, and it returns r
Called(r) ==
    /\ ops' = ops + 1
    /\ ret' = r
    /\ UNCHANGED <<config, threads>>

Returned(op, key, v, err) == [op |-> op, key |-> key, v |-> v, err |-> err]

\* what a ValueLoader call can return
LoaderOutcomes ==
    [v : {Loaded}, err : {nil}] \cup [v : {nil}, err : LoaderErrors]
\* how long a ValueLoader call can take
LoadTimes == 0..1
\* the durations SetExpiresIn is called with
ExpiresIns == {1}
\* the times SetExpiresAt is called with at time t
ExpiresAts(t) == {t - 1, t + 2}

\* the key put starts a chain of reads under access expiry
Started(key) ==
    IF ExpiresAfterAccessDuration # emptyDuration
    THEN [key |-> key, start |-> now, last |-> now, reads |-> 0]
    ELSE NoChain

\* a read of key at time now continues the chain when it comes less than
\* ExpiresAfterAccessDuration after the put or the read before it
Continued(key) ==
    IF chain.reads >= 0 /\ chain.key = key
          /\ now - chain.last < ExpiresAfterAccessDuration
    THEN [chain EXCEPT !.last = now, !.reads = chain.reads + 1]
    ELSE NoChain

CallPut(key, value) ==
    \E order \in PassOrders(Cache, now) :
        /\ Becomes(Put(Cache, key, value, now, order))
        /\ Called(Returned("Put", key, nil, nil))
        /\ chain' = Started(key)
        /\ UNCHANGED <<now, gets, getHits>>

CallGetIfPresent(key) ==
    LET r == GetIfPresent(Cache, key, now)
    IN  /\ Becomes(r.c)
        /\ Called(Returned("GetIfPresent", key, r.v, r.err))
        /\ gets' = gets + 1
        /\ getHits' = getHits + (IF r.err = nil THEN 1 ELSE 0)
        /\ chain' = Continued(key)
        /\ UNCHANGED now

\* Get, Load and GetWithValueLoader: the loader returns out after dt
CallGetWithValueLoader(key, out, dt) ==
    \E order \in LoadOrders(GetIfPresent(Cache, key, now).c, out, now + dt) :
        LET r == GetWithValueLoader(Cache, key, out, now, now + dt, order)
            hit == GetIfPresent(Cache, key, now).err = nil
        IN  /\ now + dt <= MaxTime
            /\ hit => dt = 0
            /\ Becomes(r.c)
            /\ Called(Returned("GetWithValueLoader", key, r.v, r.err))
            /\ gets' = gets + 1
            /\ getHits' = getHits + (IF hit THEN 1 ELSE 0)
            /\ now' = now + dt
            /\ chain' = NoChain

CallRefresh(key, out, dt) ==
    \E order \in LoadOrders(Cache, out, now + dt) :
        /\ now + dt <= MaxTime
        /\ Becomes(Refresh(Cache, key, out, now, now + dt, order))
        /\ Called(Returned("Refresh", key, nil, nil))
        /\ now' = now + dt
        /\ chain' = NoChain
        /\ UNCHANGED <<gets, getHits>>

CallInvalidate(key) ==
    /\ Becomes(Invalidate(Cache, key))
    /\ Called(Returned("Invalidate", key, nil, nil))
    /\ chain' = NoChain
    /\ UNCHANGED <<now, gets, getHits>>

CallInvalidateAll ==
    /\ Becomes(InvalidateAll(Cache))
    /\ Called(Returned("InvalidateAll", "", nil, nil))
    /\ chain' = NoChain
    /\ UNCHANGED <<now, gets, getHits>>

CallCleanUp ==
    \E order \in Orders(DOMAIN values) :
        /\ Becomes(CleanUp(Cache, now, order))
        /\ Called(Returned("CleanUp", "", nil, nil))
        /\ chain' = NoChain
        /\ UNCHANGED <<now, gets, getHits>>

CallSetExpiresAt(key, expires) ==
    /\ Becomes(SetExpiresAt(Cache, key, expires))
    /\ Called(Returned("SetExpiresAt", key, nil, nil))
    /\ chain' = NoChain
    /\ UNCHANGED <<now, gets, getHits>>

CallSetExpiresIn(key, expiresIn) ==
    /\ Becomes(SetExpiresIn(Cache, key, expiresIn, now))
    /\ Called(Returned("SetExpiresIn", key, nil, nil))
    /\ chain' = NoChain
    /\ UNCHANGED <<now, gets, getHits>>

CallSetWeight(key, w) ==
    /\ Becomes(SetWeight(Cache, key, w))
    /\ Called(Returned("SetWeight", key, nil, nil))
    /\ chain' = NoChain
    /\ UNCHANGED <<now, gets, getHits>>

\* time passes between two calls
Tick ==
    /\ now < MaxTime
    /\ now' = now + 1
    /\ UNCHANGED <<config, fields, ret, history, threads>>

\* a run makes MaxOps calls
Next ==
    \/ \E key \in Keys, value \in Values : ops < MaxOps /\ CallPut(key, value)
    \/ \E key \in Keys : ops < MaxOps /\ CallGetIfPresent(key)
    \/ \E key \in Keys, out \in LoaderOutcomes, dt \in LoadTimes :
            ops < MaxOps /\ CallGetWithValueLoader(key, out, dt)
    \/ \E key \in Keys : ops < MaxOps /\ CallInvalidate(key)
    \/ ops < MaxOps /\ CallInvalidateAll
    \/ ops < MaxOps /\ CallCleanUp
    \/ Tick

\* calls of the cache interface, one after the other, on a cache made by a constructor
Spec == Init /\ [][Next]_vars

\* the same calls on a cache with MaxKeys set
SpecBounded == InitBounded /\ [][Next]_vars

\* the same calls on a cache with a time policy and no bound
SpecExpiring == InitExpiring /\ [][Next]_vars

\* the same calls on a cache with MaxKeys and an expiry duration
SpecBoundedExpiring == InitBoundedExpiring /\ [][Next]_vars

\* the weights SetWeight is called with
Weights == 1..MaxW

\* a run with the per-key overrides and Refresh makes MaxOps calls
NextOverrides ==
    \/ \E key \in Keys, value \in Values : ops < MaxOps /\ CallPut(key, value)
    \/ \E key \in Keys : ops < MaxOps /\ CallGetIfPresent(key)
    \/ \E key \in Keys, out \in LoaderOutcomes, dt \in LoadTimes :
            ops < MaxOps /\ CallRefresh(key, out, dt)
    \/ ops < MaxOps /\ CallCleanUp
    \/ \E key \in Keys, expires \in ExpiresAts(now) :
            ops < MaxOps /\ CallSetExpiresAt(key, expires)
    \/ \E key \in Keys, expiresIn \in ExpiresIns :
            ops < MaxOps /\ CallSetExpiresIn(key, expiresIn)
    \/ \E key \in Keys, w \in Weights : ops < MaxOps /\ CallSetWeight(key, w)
    \/ Tick

\* calls of the interface with the per-key overrides (ExpiringCache,
\* PriorityCache) and Refresh, on a cache made by a constructor
SpecOverrides == Init /\ [][NextOverrides]_vars

\* a run of puts, weight overrides and passes makes one call more than MaxOps
NextWeights ==
    \/ \E key \in Keys, value \in Values : ops < MaxOps + 1 /\ CallPut(key, value)
    \/ \E key \in Keys, w \in Weights : ops < MaxOps + 1 /\ CallSetWeight(key, w)
    \/ ops < MaxOps + 1 /\ CallCleanUp
    \/ Tick

\* puts, weight overrides and passes on a cache with MaxKeys set
SpecWeights == InitWeights /\ [][NextWeights]_vars

(***************************************************************************)
(* Callers that share the cache.  A call is a walk through positions: a    *)
(* critical section (the caller waits at it until Lock succeeds, is in it  *)
(* until its body has run and unlocked), or a step made with the mutex not *)
(* held.                                                                   *)
(***************************************************************************)
\* the critical sections: cleanUpIfNeccissary 58-74, CleanUp 208-297, Put 83-97,
\* isKeyExpired 159-176, Invalidate 179-184, GetIfPresent 128-130 and 137-139,
\* loadWithValueLoader 108-111
Sections == {"trigger", "pass", "write", "expiry", "invalidate", "request", "hit", "stat"}

\* the cache the callers share: MaxKeys and write expiry set on NewPowerCache()
Shared == {[NewPowerCache EXCEPT !.maxKeys = N, !.write = DW]}

InitShared == InitOf(Shared)

\* caller i is at position at, outside every critical section
At(i, at) == ~fault /\ pc[i].at = at /\ ~pc[i].in

\* caller i is in the critical section at, past its Lock()
Inside(i, at) == ~fault /\ pc[i].at = at /\ pc[i].in

\* caller i goes on to position at
Goes(i, at) == pc' = [pc EXCEPT ![i].at = at, ![i].in = FALSE]

\* the call of caller i returns v, err
Returns(i, v, err) ==
    /\ pc' = [pc EXCEPT ![i] = Idle]
    /\ ret' = Returned(pc[i].op, pc[i].key, v, err)

\* caller i starts a call, whose first position is at
Starts(i, op, key, value, at) ==
    /\ At(i, "idle")
    /\ ops < MaxOps
    /\ ops' = ops + 1
    /\ pc' = [pc EXCEPT ![i] = [at |-> at, in |-> FALSE, op |-> op, key |-> key,
                                value |-> value, t0 |-> 0]]
    /\ UNCHANGED <<config, fields, now, ret, gets, getHits, chain, mu, fault>>

StartPut(i, key, value) == Starts(i, "Put", key, value, "trigger")
StartGetIfPresent(i, key) == Starts(i, "GetIfPresent", key, nil, "expiry")
StartGetWithValueLoader(i, key) == Starts(i, "GetWithValueLoader", key, nil, "expiry")
StartInvalidate(i, key) == Starts(i, "Invalidate", key, nil, "invalidate")
StartCleanUp(i) == Starts(i, "CleanUp", "", nil, "pass")

\* c.mu.Lock() at the head of a critical section: blocks while the mutex is held
Lock(i) ==
    /\ ~fault
    /\ pc[i].at \in Sections
    /\ ~pc[i].in
    /\ mu = 0
    /\ mu' = i
    /\ pc' = [pc EXCEPT ![i].in = TRUE]
    /\ UNCHANGED <<config, fields, now, ret, history, fault>>

\* cleanUpIfNeccissary, lines 59-74: shouldClean is computed, the mutex released
CheckTrigger(i) ==
    /\ Inside(i, "trigger")
    /\ mu' = 0
    /\ Goes(i, IF shouldClean(Cache, now) THEN "pass" ELSE "write")
    /\ UNCHANGED <<config, fields, now, ret, history, fault>>

\* CleanUp, lines 210-297, called by cleanUpIfNeccissary or by the caller
RunPass(i) ==
    /\ Inside(i, "pass")
    /\ \E order \in Orders(DOMAIN values) : Becomes(CleanUp(Cache, now, order))
    /\ mu' = 0
    /\ IF pc[i].op = "CleanUp"
       THEN Returns(i, nil, nil)
       ELSE Goes(i, "write") /\ UNCHANGED ret
    /\ UNCHANGED <<config, now, history, fault>>

\* Put, lines 85-97; a Put made by loadWithValueLoader returns the loaded value
Write(i) ==
    /\ Inside(i, "write")
    /\ Becomes(putWrite(Cache, pc[i].key, pc[i].value, now))
    /\ mu' = 0
    /\ Returns(i, IF pc[i].op = "Put" THEN nil ELSE pc[i].value, nil)
    /\ UNCHANGED <<config, now, history, fault>>

\* isKeyExpired, lines 161-175, called by GetIfPresent
CheckExpiry(i) ==
    /\ Inside(i, "expiry")
    /\ mu' = 0
    /\ Goes(i, IF isKeyExpired(Cache, pc[i].key, now) THEN "invalidate" ELSE "request")
    /\ UNCHANGED <<config, fields, now, ret, history, fault>>

\* Invalidate, lines 181-184, called by GetIfPresent or by the caller
Remove(i) ==
    /\ Inside(i, "invalidate")
    /\ Becomes(Invalidate(Cache, pc[i].key))
    /\ mu' = 0
    /\ IF pc[i].op = "Invalidate"
       THEN Returns(i, nil, nil)
       ELSE Goes(i, "request") /\ UNCHANGED ret
    /\ UNCHANGED <<config, now, history, fault>>

\* GetIfPresent, lines 128-130: c.statReqs++
CountRequest(i) ==
    /\ Inside(i, "request")
    /\ Becomes([Cache EXCEPT !.statReqs = statReqs + 1])
    /\ gets' = gets + 1
    /\ mu' = 0
    /\ Goes(i, "lookup")
    /\ UNCHANGED <<config, now, ret, getHits, chain, ops, fault>>

\* GetIfPresent, line 131: v, ok := c.values[key], the mutex not held
Lookup(i) ==
    /\ At(i, "lookup")
    /\ IF pc[i].key \in DOMAIN values
       THEN /\ pc' = [pc EXCEPT ![i].at = "stamp", ![i].value = values[pc[i].key]]
            /\ UNCHANGED ret
       ELSE IF pc[i].op = "GetIfPresent"
            THEN Returns(i, nil, ErrNotPresent)
            ELSE Goes(i, "load") /\ UNCHANGED ret
    /\ UNCHANGED <<config, fields, now, history, mu, fault>>

\* GetIfPresent, lines 132-136 write c.tstamp[key] unless write expiry alone is set
Stamps ==
    \/ ExpiresAfterWriteDuration = emptyDuration
    \/ ExpiresAfterAccessDuration # emptyDuration

\* GetIfPresent, lines 132-136: the timestamp refresh, the mutex not held
Stamp(i) ==
    /\ At(i, "stamp")
    /\ Becomes([Cache EXCEPT !.tstamp = readStamp(Cache, pc[i].key, now)])
    /\ Goes(i, "hit")
    /\ UNCHANGED <<config, now, ret, history, mu, fault>>

\* GetIfPresent, lines 137-140: c.statHits++, return v, nil
CountHit(i) ==
    /\ Inside(i, "hit")
    /\ Becomes([Cache EXCEPT !.statHits = statHits + 1])
    /\ getHits' = getHits + 1
    /\ mu' = 0
    /\ Returns(i, pc[i].value, nil)
    /\ UNCHANGED <<config, now, gets, chain, ops, fault>>

\* CallLoader taking the mutex before it calls the loader
CallLoaderLocked(i) ==
    /\ At(i, "load")
    /\ mu = 0
    /\ mu' = i
    /\ pc' = [pc EXCEPT ![i].at = "loading", ![i].in = TRUE, ![i].t0 = now]
    /\ UNCHANGED <<config, fields, now, ret, history, fault>>

\* loadWithValueLoader, lines 101-102: start := time.Now(); valueLoader(key) is called
CallLoader(i) ==
    /\ At(i, "load")
    /\ pc' = [pc EXCEPT ![i].at = "loading", ![i].t0 = now]
    /\ UNCHANGED <<config, fields, now, ret, history, mu, fault>>

\* loadWithValueLoader, lines 102-106: the loader returns out
LoaderReturns(i, out) ==
    /\ pc[i].at = "loading"
    /\ ~fault
    /\ IF out.err # nil
       THEN Returns(i, nil, out.err)
       ELSE /\ pc' = [pc EXCEPT ![i].at = "stat", ![i].in = FALSE, ![i].value = out.v]
            /\ UNCHANGED ret
    /\ UNCHANGED <<config, fields, now, history, mu, fault>>

\* loadWithValueLoader, lines 108-112: the load counters, then c.Put(key, value)
CountLoad(i) ==
    /\ Inside(i, "stat")
    /\ Becomes(loadStat(Cache, now - pc[i].t0))
    /\ mu' = 0
    /\ Goes(i, "trigger")
    /\ UNCHANGED <<config, now, ret, history, fault>>

\* another caller is writing a map: it is in a critical section that writes
\* one, or at the timestamp refresh of GetIfPresent
Racing(i) ==
    \E j \in Callers \ {i} :
        \/ pc[j].in /\ pc[j].at \in {"pass", "write", "invalidate"}
        \/ pc[j].at = "stamp" /\ Stamps

\* the access of GetIfPresent made with the mutex not held meets a write of
\* another caller, and the runtime stops the program
Throw(i) ==
    /\ ~fault
    /\ pc[i].at = "lookup" \/ (pc[i].at = "stamp" /\ Stamps)
    /\ Racing(i)
    /\ fault' = TRUE
    /\ UNCHANGED <<config, fields, now, ret, history, mu, pc>>

\* a step of the call caller i is in
Continue(i) ==
    \/ Lock(i)
    \/ CheckTrigger(i)
    \/ RunPass(i)
    \/ Write(i)
    \/ CheckExpiry(i)
    \/ Remove(i)
    \/ CountRequest(i)
    \/ Lookup(i)
    \/ Stamp(i)
    \/ CountHit(i)
    \/ CallLoader(i)
    \/ \E out \in LoaderOutcomes : LoaderReturns(i, out)
    \/ CountLoad(i)

\* a long time passes while no call is in progress: the clock reaches MaxTime
Late ==
    /\ \A i \in Callers : pc[i].at = "idle"
    /\ now < MaxTime
    /\ now' = MaxTime
    /\ UNCHANGED <<config, fields, ret, history, threads>>

NextShared ==
    \/ \E i \in Callers, key \in Keys, value \in Values : StartPut(i, key, value)
    \/ \E i \in Callers, key \in Keys : StartGetIfPresent(i, key)
    \/ \E i \in Callers, key \in Keys : StartGetWithValueLoader(i, key)
    \/ \E i \in Callers, key \in Keys : StartInvalidate(i, key)
    \/ \E i \in Callers : StartCleanUp(i)
    \/ \E i \in Callers : Continue(i)
    \/ \E i \in Callers : Throw(i)
    \/ Late

\* calls of several callers at once, on a cache with MaxKeys set
SpecShared == InitShared /\ [][NextShared]_vars

(***************************************************************************)
(* Properties.                                                             *)
(***************************************************************************)
\* this step is a call of op
Step(op) == ops' = ops + 1 /\ ret'.op = op

\* a write-expiry or an access-expiry duration is configured
TimePolicy ==
    \/ ExpiresAfterWriteDuration # emptyDuration
    \/ ExpiresAfterAccessDuration # emptyDuration

\* C1: with MaxKeys = N configured, the number of live keys is at most N after
\* every call (every Put included) has returned.
C1_LiveKeysAtMostMaxKeys == MaxKeys # 0 => Length(Cache) <= MaxKeys

\* a Put on a full cache has returned, having evicted a key, and the cache is full
C1_Witness ==
    /\ MaxKeys # 0
    /\ ret.op = "Put"
    /\ removed >= 1
    /\ Length(Cache) = MaxKeys
\* the key with the oldest timestamp among the live keys
Oldest == CHOOSE k \in DOMAIN values : \A j \in DOMAIN values : tstamp[k] <= tstamp[j]

\* the live keys have equal weights and distinct timestamps
EqualWeightsDistinctStamps ==
    \A j, k \in DOMAIN values :
        /\ weight[j] = weight[k]
        /\ j # k => tstamp[j] # tstamp[k]

\* C2: with MaxKeys set, no time policy, equal weights and distinct timestamps, a
\* maintenance pass (CleanUp, or the pass a Put runs) evicts exactly the live key
\* with the oldest timestamp.
C2_PassEvictsOldest ==
    [][(/\ MaxKeys # 0
        /\ ~TimePolicy
        /\ values # EmptyMap
        /\ EqualWeightsDistinctStamps)
       => /\ Step("CleanUp") => DOMAIN values' = DOMAIN values \ {Oldest}
          /\ Step("Put") /\ shouldClean(Cache, now)
                => DOMAIN values' = (DOMAIN values \ {Oldest}) \cup {ret'.key}]_vars

\* C3: under a time policy GetIfPresent(k) returns NotPresent at any time later
\* than the deadline stored for k, and the read path (isKeyExpired) and the sweep
\* of CleanUp take k for expired at the same times.
C3_ReadAfterDeadlineNotPresent ==
    [][\A k \in Keys :
          (TimePolicy /\ Step("GetIfPresent") /\ ret'.key = k /\ k \in DOMAIN tstamp)
          => /\ now > tstamp[k] => ret'.err = ErrNotPresent
             /\ isKeyExpired(Cache, k, now) <=> sweepExpired(Cache, k, now)]_vars

Configuration ==
    [access |-> ExpiresAfterAccessDuration, write |-> ExpiresAfterWriteDuration,
     periodic |-> PeriodicMaintenance, maxKeys |-> MaxKeys, maxSize |-> MaxSize,
     defaultWeight |-> 0]

\* C5: in a cache made by NewExpiresAfterWriteCache or NewExpiresAfterAccessCache, a
\* Put or a load of a key removes no other key whose deadline has not passed, and
\* leaves its value as it was.
C5_PutKeepsUnexpiredKeys ==
    [][(/\ Configuration \in {NewExpiresAfterWriteCache(DW), NewExpiresAfterAccessCache(DA)}
        /\ Step("Put") \/ Step("GetWithValueLoader"))
       => \A k1 \in DOMAIN values \ {ret'.key} :
             tstamp[k1] >= now' => k1 \in DOMAIN values' /\ values'[k1] = values[k1]]_vars

\* C6: when the loader returns an error e for a key that is not present,
\* GetWithValueLoader returns e, adds the key to none of the three maps, and
\* a GetIfPresent of the key right after it returns ErrNotPresent.
C6_FailedLoadStoresNothing ==
    [][\A k \in Keys, e \in LoaderErrors, dt \in LoadTimes :
          (/\ Step("GetWithValueLoader")
           /\ ret'.key = k
           /\ GetIfPresent(Cache, k, now).err # nil
           /\ CallGetWithValueLoader(k, [v |-> nil, err |-> e], dt))
          => /\ ret'.err = e
             /\ ret'.v = nil
             /\ k \notin DOMAIN values'
             /\ k \in DOMAIN tstamp' => k \in DOMAIN tstamp
             /\ k \in DOMAIN weight' => k \in DOMAIN weight
             /\ GetIfPresent(Cache', k, now').err = ErrNotPresent]_vars

\* a GetWithValueLoader has returned its loader's error, with other keys live
C6_Witness ==
    /\ ret.op = "GetWithValueLoader"
    /\ ret.err \in LoaderErrors
    /\ ret.key \notin DOMAIN values
    /\ values # EmptyMap

\* C7: the eviction counter equals the number of keys removed from the cache.
C7_EvictionsEqualRemoved == EvictionCount(Cache) = removed

\* H / R as a float64, 0 when R = 0
Ratio(h, r) == IF r = 0 THEN Fin(0, 1) ELSE Fin(h, r)

\* C8: the request counter equals the number of GetIfPresent executions, the hit
\* counter the number of those that returned a value, hits <= requests, and
\* HitRate() is their quotient (0 when there was no request).
C8_CountersCountReads ==
    /\ statReqs = gets
    /\ statHits = getHits
    /\ statHits <= statReqs
    /\ FEq(HitRate(Cache), Ratio(getHits, gets))

\* reads have hit and reads have missed
C8_Witness ==
    /\ gets >= 2
    /\ getHits >= 1
    /\ getHits < gets

\* C9: with MaxKeys = N and no time policy, a Put made while fewer than N keys are
\* live evicts nothing, and a Put made while exactly N keys are live evicts
\* exactly one key.
C9_PutEvictsOnlyWhenFull ==
    [][(MaxKeys # 0 /\ ~TimePolicy /\ Step("Put"))
       => /\ Length(Cache) < MaxKeys => removed' = removed
          /\ Length(Cache) = MaxKeys => removed' = removed + 1]_vars

\* the calls that may change the timestamp of their key
Writers == {"Put", "GetWithValueLoader", "Refresh", "SetExpiresAt", "SetExpiresIn"}

\* no step but a writer of k changes the timestamp of a live key k, and
\* GetIfPresent(k) leaves the timestamp of k as it was
DeadlinesFixed ==
    /\ \A k \in DOMAIN values \cap DOMAIN values' :
          tstamp'[k] # tstamp[k] => ret'.op \in Writers /\ ret'.key = k /\ ops' = ops + 1
    /\ Step("GetIfPresent") /\ ret'.key \in DOMAIN tstamp \cap DOMAIN tstamp'
          => tstamp'[ret'.key] = tstamp[ret'.key]

\* C10 as stated: whenever a write-expiry duration is configured, GetIfPresent(k)
\* leaves the deadline of k unchanged, and the deadline of a live key changes only
\* through Put, load, Refresh, SetExpiresAt or SetExpiresIn of that key.
C10_AsStated == [][ExpiresAfterWriteDuration # emptyDuration => DeadlinesFixed]_vars

\* C10, amended: the same, whenever a write-expiry duration and no access-expiry
\* duration is configured.
C10_WriteDeadlinesFixed ==
    [][(/\ ExpiresAfterWriteDuration # emptyDuration
        /\ ExpiresAfterAccessDuration = emptyDuration) => DeadlinesFixed]_vars

\* under write expiry alone a GetIfPresent has returned a key some time after it
\* was written, and the deadline of the key is still the one of the write
C10_Witness ==
    /\ ExpiresAfterWriteDuration # emptyDuration
    /\ ExpiresAfterAccessDuration = emptyDuration
    /\ ret.op = "GetIfPresent"
    /\ ret.err = nil
    /\ tstamp[ret.key] < now + ExpiresAfterWriteDuration

\* the conditions under which a pass is due at time t: the periodic interval is
\* configured and t has reached nextClean, or a configured bound is reached
Due(c, t) ==
    \/ PeriodicMaintenance # emptyDuration /\ t >= c.nextClean
    \/ MaxKeys # 0 /\ Length(c) >= MaxKeys
    \/ MaxSize # 0 /\ c.cacheSizeEst >= MaxSize

\* this step is a Put that ran a maintenance pass (a pass always adds to
\* statEvictions, the write of Put never does)
PutRanPass == Step("Put") /\ statEvictions' # statEvictions

\* C11: Put runs a maintenance pass if and only if the periodic interval is
\* configured and now >= nextClean, or MaxKeys is configured and reached, or
\* MaxSize is configured and reached.
C11_PutPassesWhenDue ==
    [][Step("Put") => (PutRanPass <=> Due(Cache, now))]_vars

\* this step is a maintenance pass: a CleanUp call, or a Put that runs one
Pass == Step("CleanUp") \/ (Step("Put") /\ shouldClean(Cache, now))

\* the keys this step removes from the cache and does not write again
Removed == DOMAIN values \ DOMAIN values'

\* the key this step writes, when it is a Put
Written == IF Step("Put") THEN {ret'.key} ELSE {}

\* C12: on a cache with no MaxKeys and no MaxSize, a maintenance pass removes
\* only entries whose deadline has passed (nothing when no entry is expired).
C12_PassRemovesOnlyExpired ==
    [][(MaxKeys = 0 /\ MaxSize = 0 /\ Pass)
       => \A k \in Removed : TimePolicy /\ sweepExpired(Cache, k, now)]_vars

\* the live keys whose deadline has passed
Expired == {k \in DOMAIN values : sweepExpired(Cache, k, now)}

\* C13: on a cache with a time policy and a MaxKeys or MaxSize bound, a pass
\* that finds an expired entry removes exactly one entry, an expired one.
C13_PassRemovesOneExpired ==
    [][(/\ TimePolicy
        /\ MaxKeys # 0 \/ MaxSize # 0
        /\ Expired # {}
        /\ Pass)
       => \E k \in Expired : DOMAIN values' \ Written = DOMAIN values \ ({k} \cup Written)]_vars

\* C15: on a cache with MaxKeys and a time policy (write or access expiry), with
\* equal weights, distinct deadlines and no expired entry, a pass evicts exactly
\* the key with the earliest deadline.
C15_PassEvictsEarliestDeadline ==
    [][(/\ MaxKeys # 0
        /\ TimePolicy
        /\ values # EmptyMap
        /\ EqualWeightsDistinctStamps
        /\ Expired = {})
       => /\ Step("CleanUp") => DOMAIN values' = DOMAIN values \ {Oldest}
          /\ Step("Put") /\ shouldClean(Cache, now)
                => DOMAIN values' = (DOMAIN values \ {Oldest}) \cup {ret'.key}]_vars

\* C14: when a pass compares two live entries of equal timestamp and of weights
\* w1 < w2, it evicts the entry of weight w2.
C14_PassEvictsHeavier ==
    [][\A j, k \in DOMAIN values :
          (/\ Pass
           /\ DOMAIN values = {j, k}
           /\ tstamp[j] = tstamp[k]
           /\ weight[j] < weight[k]
           /\ TimePolicy => Expired = {})
          => DOMAIN values' = {j} \cup Written]_vars

\* C16: the three maps have identical key sets.
C16_MapsSameKeys ==
    /\ DOMAIN values = DOMAIN tstamp
    /\ DOMAIN values = DOMAIN weight

\* this step of caller i reads or writes one of the three maps
Accesses(i) ==
    /\ pc'[i] # pc[i]
    /\ \/ pc[i].in /\ pc[i].at \in {"trigger", "pass", "write", "expiry", "invalidate"}
       \/ pc[i].at = "lookup"
       \/ pc[i].at = "stamp" /\ Stamps

\* C17: every read and every write of the values, timestamp and weight maps is
\* made by a caller that holds the mutex.
C17_MapAccessUnderLock ==
    [][\A i \in Callers : Accesses(i) => mu = i]_vars

\* caller i can take a step of its call: it is in a critical section, or waits
\* at one while the mutex is free, or is at a step made with the mutex not held
CanStep(i) ==
    /\ ~fault
    /\ \/ pc[i].at \in Sections /\ (pc[i].in \/ mu = 0)
       \/ pc[i].at \in {"lookup", "stamp", "load", "loading"} /\ ~pc[i].in

\* C18: a caller that is inside its loader does not hold the mutex, and every
\* other caller that is in a call can take a step of it.
C18_LoaderRunsUnlocked ==
    \A i \in Callers :
        pc[i].at = "loading"
            => /\ mu # i
               /\ ~pc[i].in
               /\ \A j \in Callers \ {i} : pc[j].at # "idle" => CanStep(j)

\* a caller is inside its loader while another caller holds the mutex in the
\* write of its Put
C18_Witness ==
    \E i, j \in Callers :
        /\ pc[i].at = "loading"
        /\ pc[j].at = "write"
        /\ pc[j].in
        /\ mu = j

\* no caller is in a Put (its trigger check, its pass or its write)
NoPutInFlight == \A i \in Callers : pc[i].at \notin {"trigger", "pass", "write"}

\* C19: with MaxKeys = N and callers running Put at once, the number of live keys
\* is at most N whenever no Put is in flight.
C19_SharedLiveKeysAtMostMaxKeys ==
    (MaxKeys # 0 /\ NoPutInFlight) => Length(Cache) <= MaxKeys

\* C20: every call a caller has started returns in the end and the mutex is
\* free in the end.  A run makes finitely many calls, each of finitely many
\* steps, so under fair scheduling this says that no call is ever stuck: while a
\* call is in progress or the mutex is held, some caller can take a step of its call.
C20_NoCallStuck ==
    (mu # 0 \/ \E i \in Callers : pc[i].at # "idle")
        => \E i \in Callers : CanStep(i)
====
